---- MODULE Spec2Model ----
(***************************************************************************)
(* Model of scope_capture.py (Siglent SDS 1104X-E waveform capture).       *)
(*                                                                         *)
(* Text is a sequence of one-character strings; a raw instrument buffer is *)
(* a sequence of bytes 0..255.  Python floats are modelled by the exact    *)
(* numbers they denote: a parsed value is a decimal m * 10^e, voltages and *)
(* timestamps are exact rationals n/d.  Float rounding, overflow to inf    *)
(* and signed zero are outside the model.                                  *)
(***************************************************************************)
EXTENDS Integers, Sequences, FiniteSets, TLC

VARIABLES
    reading,       \* the instrument: the reading its next response is formatted from
    response,      \* parse_value: the text handed to it
    parsed,        \* parse_value: its result (or "unset")
    raw,           \* capture_channel: the buffer read_raw() returned
    vresp,         \* capture_channel: the response to C<n>:VDIV?
    oresp,         \* capture_channel: the response to C<n>:OFST?
    cap,           \* capture_channel: its outcome (or "unset")
    pc,            \* main: where it stands
    args,          \* main: the parsed command line
    channels,      \* main: the channels to capture
    sent,          \* main: the commands it has sent to the scope so far
    sara,          \* main: the parsed sample rate
    idx,           \* main: position of the capture loop in channels (1-based)
    attempts,      \* history: the capture_channel calls made, with their outcomes
    channel_data,  \* main: channel -> voltages
    num_points,    \* main
    times,         \* main: the time axis (or "unset")
    skip,          \* main: the decimation stride (0 while unset)
    before,        \* history: times and channel_data as they were before decimation
    csv            \* save_csv: the file written (or "unset")

parseVars == <<reading, response, parsed>>

captureVars == <<raw, vresp, oresp, cap>>

mainVars == <<pc, args, channels, sent, sara, idx, attempts, channel_data,
              num_points, times, skip, before, csv>>

vars == <<parseVars, captureVars, mainVars>>

----------------------------------------------------------------------------
(* Generic sequence helpers                                                *)

Last(s) == s[Len(s)]

Front(s) == SubSeq(s, 1, Len(s) - 1)

EndsWith(s, suf) ==
    /\ Len(suf) <= Len(s)
    /\ SubSeq(s, Len(s) - Len(suf) + 1, Len(s)) = suf

\* Smallest index of s holding a member of set, 0 when there is none.
IndexOf(s, set) ==
    IF \E i \in 1..Len(s) : s[i] \in set
    THEN CHOOSE i \in 1..Len(s) : s[i] \in set /\ \A j \in 1..(i - 1) : s[j] \notin set
    ELSE 0

----------------------------------------------------------------------------
(* Exact decimals m * 10^e, the numbers parse_value returns                *)

FAIL == [k |-> "fail"]

RECURSIVE DecNorm(_, _)
DecNorm(m, e) ==
    IF m = 0 THEN [k |-> "num", m |-> 0, e |-> 0]
    ELSE IF m % 10 = 0 THEN DecNorm(m \div 10, e + 1)
    ELSE [k |-> "num", m |-> m, e |-> e]

\* Python float * float on the modelled values (nan and inf absorb a finite
\* positive multiplier).
FloatMulPow10(x, p) ==
    IF x.k = "num" THEN DecNorm(x.m, x.e + p) ELSE x

----------------------------------------------------------------------------
(* Python's float(str)                                                     *)

DigitChars == {"0", "1", "2", "3", "4", "5", "6", "7", "8", "9"}

DigitVal(c) ==
    CASE c = "0" -> 0 [] c = "1" -> 1 [] c = "2" -> 2 [] c = "3" -> 3
      [] c = "4" -> 4 [] c = "5" -> 5 [] c = "6" -> 6 [] c = "7" -> 7
      [] c = "8" -> 8 [] c = "9" -> 9

\* A digit group as Python's numeric literals accept it: digits, with single
\* underscores allowed between digits only.
DigitsOK(s) ==
    /\ Len(s) > 0
    /\ \A i \in 1..Len(s) : s[i] \in DigitChars \cup {"_"}
    /\ s[1] # "_"
    /\ s[Len(s)] # "_"
    /\ \A i \in 1..(Len(s) - 1) : ~(s[i] = "_" /\ s[i + 1] = "_")

RECURSIVE DigitsValue(_)
DigitsValue(s) ==
    IF s = <<>> THEN 0
    ELSE IF Last(s) = "_" THEN DigitsValue(Front(s))
    ELSE 10 * DigitsValue(Front(s)) + DigitVal(Last(s))

NumDigits(s) == Cardinality({i \in 1..Len(s) : s[i] \in DigitChars})

Lower(c) ==
    CASE c = "N" -> "n" [] c = "A" -> "a" [] c = "I" -> "i" [] c = "F" -> "f"
      [] c = "T" -> "t" [] c = "Y" -> "y" [] OTHER -> c

PyFloat(s) ==
    LET signed == Len(s) > 0 /\ s[1] \in {"+", "-"}
        sgn    == IF signed /\ s[1] = "-" THEN -1 ELSE 1
        body   == IF signed THEN SubSeq(s, 2, Len(s)) ELSE s
        lower  == [i \in 1..Len(body) |-> Lower(body[i])]
        ei     == IndexOf(body, {"e", "E"})
        mant   == IF ei = 0 THEN body ELSE SubSeq(body, 1, ei - 1)
        expo   == IF ei = 0 THEN <<>> ELSE SubSeq(body, ei + 1, Len(body))
        esig   == Len(expo) > 0 /\ expo[1] \in {"+", "-"}
        esgn   == IF esig /\ expo[1] = "-" THEN -1 ELSE 1
        edig   == IF esig THEN SubSeq(expo, 2, Len(expo)) ELSE expo
        di     == IndexOf(mant, {"."})
        ip     == IF di = 0 THEN mant ELSE SubSeq(mant, 1, di - 1)
        fp     == IF di = 0 THEN <<>> ELSE SubSeq(mant, di + 1, Len(mant))
        valid  == /\ ei # 0 => DigitsOK(edig)
                  /\ ip # <<>> => DigitsOK(ip)
                  /\ fp # <<>> => DigitsOK(fp)
                  /\ ip # <<>> \/ fp # <<>>
    IN  IF lower = <<"n", "a", "n">> THEN [k |-> "nan"]
        ELSE IF lower \in {<<"i", "n", "f">>,
                           <<"i", "n", "f", "i", "n", "i", "t", "y">>}
        THEN [k |-> "inf", sgn |-> sgn]
        ELSE IF ~valid THEN FAIL
        ELSE DecNorm(sgn * (DigitsValue(ip) * 10^NumDigits(fp) + DigitsValue(fp)),
                     esgn * DigitsValue(edig) - NumDigits(fp))

----------------------------------------------------------------------------
(* parse_value                                                             *)

Whitespace == {" ", "\t", "\n", "\r"}

\* str.strip()
RECURSIVE PyStrip(_)
PyStrip(s) ==
    IF s = <<>> THEN s
    ELSE IF s[1] \in Whitespace THEN PyStrip(Tail(s))
    ELSE IF Last(s) \in Whitespace THEN PyStrip(Front(s))
    ELSE s

\* str.split()[-1] of a stripped, non-empty string: the text after its last
\* whitespace character.
RECURSIVE LastToken(_)
LastToken(s) ==
    IF s = <<>> \/ Last(s) \in Whitespace THEN <<>>
    ELSE Append(LastToken(Front(s)), Last(s))

\* The list the unit loop walks, in its order.
UnitList ==
    << <<"S", "a", "/", "s">>, <<"s", "a", "/", "s">>, <<"p", "t", "s">>,
       <<"P", "t", "s">>, <<"H", "z">>, <<"h", "z">>, <<"V">>, <<"v">>,
       <<"s">>, <<"S">> >>

\* The unit loop walking its list from the short units to the long ones.
StripUnitShortestFirst(value_str) ==
    LET hits == {i \in 1..Len(UnitList) : EndsWith(value_str, UnitList[i])}
    IN  IF hits = {} THEN value_str
        ELSE LET last == CHOOSE i \in hits : \A j \in hits : i >= j
             IN  SubSeq(value_str, 1, Len(value_str) - Len(UnitList[last]))

\* for unit in [...]: if value_str.endswith(unit): strip it; break
StripUnit(value_str) ==
    LET hits == {i \in 1..Len(UnitList) : EndsWith(value_str, UnitList[i])}
    IN  IF hits = {} THEN value_str
        ELSE LET first == CHOOSE i \in hits : \A j \in hits : i <= j
             IN  SubSeq(value_str, 1, Len(value_str) - Len(UnitList[first]))

\* si_prefixes, each multiplier given by its power of ten.
si_prefixes ==
    [c \in {"G", "M", "k", "m", "u", "n", "p"} |->
        CASE c = "G" -> 9 [] c = "M" -> 6 [] c = "k" -> 3 [] c = "m" -> -3
          [] c = "u" -> -6 [] c = "n" -> -9 [] c = "p" -> -12]

parse_value(resp) ==
    LET stripped  == PyStrip(resp)
        value_str == IF stripped # <<>> THEN LastToken(stripped) ELSE stripped
        no_unit   == StripUnit(value_str)
        prefixed  == no_unit # <<>> /\ Last(no_unit) \in DOMAIN si_prefixes
        multPow   == IF prefixed THEN si_prefixes[Last(no_unit)] ELSE 0
        numeral   == IF prefixed THEN Front(no_unit) ELSE no_unit
        f         == PyFloat(numeral)
    IN  IF f.k = "fail" THEN FAIL ELSE FloatMulPow10(f, multPow)

----------------------------------------------------------------------------
(* The instrument's responses to a value query                             *)

UNSET == [k |-> "unset"]

\* Command echoes that precede the value token ("SARA 5.00E+08Sa/s").
Echoes == {<<>>, <<"S", "A", "R", "A", " ">>, <<"C", "1", ":", "V", " ", " ">>}

\* What follows the value token.
Terminators == {<<>>, <<"\n">>, <<" ", "\n">>}

\* Decimal and exponential numerals.
Numerals ==
    { <<"5">>, <<"0">>, <<"5", "0", "0">>, <<"-", "2", ".", "5">>, <<".", "5">>,
      <<"5", ".">>, <<"+", "5", "e", "3">>, <<"2", ".", "0", "0", "E", "-", "0", "1">>,
      <<"1", ".", "0", "0", "E", "-", "0", "3">>,
      <<"5", ".", "0", "0", "E", "+", "0", "8">> }

\* Texts that are no decimal or exponential numeral.
NonNumerals ==
    { <<>>, <<"x">>, <<"1", ".", "2", ".", "3">>, <<"5", "E">>, <<"-">>, <<".">>,
      <<"-", "-", "5">>, <<"5", "-">>, <<"E", "5">>, <<"5", "_">> }

\* Texts float() takes that are no decimal or exponential numeral.
FloatSpecials ==
    { <<"N", "a", "N">>, <<"n", "a", "n">>, <<"i", "n", "f">>, <<"1", "_", "0">> }

PrefixLetters == {<<"G">>, <<"M">>, <<"k">>, <<"m">>, <<"u">>, <<"n">>, <<"p">>}

Units == {UnitList[i] : i \in 1..Len(UnitList)}

Readings ==
    [echo   : Echoes,
     text   : Numerals \cup NonNumerals \cup FloatSpecials,
     prefix : PrefixLetters \cup {<<>>},
     unit   : Units \cup {<<>>},
     term   : Terminators]

Format(r) == r.echo \o r.text \o r.prefix \o r.unit \o r.term

----------------------------------------------------------------------------
(* Specification of parse_value on the instrument's responses              *)

IdleCapture ==
    /\ raw = <<>>
    /\ vresp = <<>>
    /\ oresp = <<>>
    /\ cap = UNSET

IdleMain ==
    /\ pc = "idle"
    /\ args = UNSET
    /\ channels = <<>>
    /\ sent = {}
    /\ sara = UNSET
    /\ idx = 0
    /\ attempts = <<>>
    /\ channel_data = <<>>
    /\ num_points = 0
    /\ times = UNSET
    /\ skip = 0
    /\ before = UNSET
    /\ csv = UNSET

ParseInit ==
    /\ reading = UNSET
    /\ response = <<>>
    /\ parsed = UNSET
    /\ IdleCapture
    /\ IdleMain

\* scope.query(...) returns a response line.
Query ==
    /\ reading = UNSET
    /\ \E r \in Readings :
        /\ reading' = r
        /\ response' = Format(r)
    /\ UNCHANGED <<parsed, captureVars, mainVars>>

ParseValue ==
    /\ reading # UNSET
    /\ parsed = UNSET
    /\ parsed' = parse_value(response)
    /\ UNCHANGED <<reading, response, captureVars, mainVars>>

ParseNext == Query \/ ParseValue

SpecParse == ParseInit /\ [][ParseNext]_vars

(* The value of each numeral of Numerals, written out by hand.             *)
NumeralValue(t) ==
    CASE t = <<"5">> -> [m |-> 5, e |-> 0]
      [] t = <<"0">> -> [m |-> 0, e |-> 0]
      [] t = <<"5", "0", "0">> -> [m |-> 5, e |-> 2]
      [] t = <<"-", "2", ".", "5">> -> [m |-> -25, e |-> -1]
      [] t = <<".", "5">> -> [m |-> 5, e |-> -1]
      [] t = <<"5", ".">> -> [m |-> 5, e |-> 0]
      [] t = <<"+", "5", "e", "3">> -> [m |-> 5, e |-> 3]
      [] t = <<"2", ".", "0", "0", "E", "-", "0", "1">> -> [m |-> 2, e |-> -1]
      [] t = <<"1", ".", "0", "0", "E", "-", "0", "3">> -> [m |-> 1, e |-> -3]
      [] t = <<"5", ".", "0", "0", "E", "+", "0", "8">> -> [m |-> 5, e |-> 8]

(* The power of ten each prefix letter stands for (giga .. pico).          *)
PrefixPower(p) ==
    CASE p = <<>> -> 0
      [] p = <<"G">> -> 9 [] p = <<"M">> -> 6 [] p = <<"k">> -> 3
      [] p = <<"m">> -> -3 [] p = <<"u">> -> -6 [] p = <<"n">> -> -9
      [] p = <<"p">> -> -12

ExpectedValue(r) ==
    IF NumeralValue(r.text).m = 0 THEN [k |-> "num", m |-> 0, e |-> 0]
    ELSE [k |-> "num", m |-> NumeralValue(r.text).m,
          e |-> NumeralValue(r.text).e + PrefixPower(r.prefix)]

----------------------------------------------------------------------------
(* Exact rationals n/d (d > 0, lowest terms): float arithmetic on finite   *)
(* values                                                                  *)

Abs(x) == IF x < 0 THEN -x ELSE x

RECURSIVE GCD(_, _)
GCD(a, b) == IF b = 0 THEN a ELSE GCD(b, a % b)

Rat(n, d) ==
    LET g == GCD(Abs(n), Abs(d))
        s == IF d < 0 THEN -1 ELSE 1
    IN  [k |-> "num", n |-> s * (n \div g), d |-> s * (d \div g)]

RInt(i) == Rat(i, 1)

RMul(a, b) == Rat(a.n * b.n, a.d * b.d)

RSub(a, b) == Rat(a.n * b.d - b.n * a.d, a.d * b.d)

\* a / b for b # 0
RDiv(a, b) == Rat(a.n * b.d, a.d * b.n)

RLess(a, b) == a.n * b.d < b.n * a.d

\* The rational a parsed decimal denotes.
DecToRat(x) ==
    IF x.e >= 0 THEN Rat(x.m * 10^(x.e), 1) ELSE Rat(x.m, 10^(-(x.e)))

----------------------------------------------------------------------------
(* Python's bytes.find, slicing and int(bytes)                             *)

\* raw.find(pat): the 0-based index of the first occurrence, -1 if none.
PyFind(s, pat) ==
    LET at(i) == /\ i + Len(pat) <= Len(s)
                 /\ SubSeq(s, i + 1, i + Len(pat)) = pat
        hits  == {i \in 0..Len(s) : at(i)}
    IN  IF hits = {} THEN -1 ELSE CHOOSE i \in hits : \A j \in hits : i <= j

\* A slice bound as Python resolves it: negative counts from the end, then
\* clamped to 0..len.
PyBound(i, len) ==
    IF i < 0 THEN (IF i + len < 0 THEN 0 ELSE i + len)
    ELSE IF i > len THEN len ELSE i

\* s[a:b]
PySlice(s, a, b) ==
    SubSeq(s, PyBound(a, Len(s)) + 1, PyBound(b, Len(s)))

\* Bytes int() strips from both ends: tab, LF, VT, FF, CR, space.
ByteSpace == {9, 10, 11, 12, 13, 32}

RECURSIVE StripBytes(_)
StripBytes(s) ==
    IF s = <<>> THEN s
    ELSE IF s[1] \in ByteSpace THEN StripBytes(Tail(s))
    ELSE IF Last(s) \in ByteSpace THEN StripBytes(Front(s))
    ELSE s

\* The character of an ASCII byte, as far as int() tells bytes apart.
Chr(b) ==
    CASE b = 48 -> "0" [] b = 49 -> "1" [] b = 50 -> "2" [] b = 51 -> "3"
      [] b = 52 -> "4" [] b = 53 -> "5" [] b = 54 -> "6" [] b = 55 -> "7"
      [] b = 56 -> "8" [] b = 57 -> "9" [] b = 95 -> "_" [] OTHER -> "?"

\* int(bytes), base 10: surrounding whitespace, one optional sign, digits
\* with single underscores between them.  [k |-> "fail"] is ValueError.
PyInt(bs) ==
    LET t      == StripBytes(bs)
        signed == Len(t) > 0 /\ t[1] \in {43, 45}
        sgn    == IF signed /\ t[1] = 45 THEN -1 ELSE 1
        body   == IF signed THEN Tail(t) ELSE t
        chars  == [i \in 1..Len(body) |-> Chr(body[i])]
    IN  IF DigitsOK(chars) THEN [k |-> "int", v |-> sgn * DigitsValue(chars)]
        ELSE FAIL

----------------------------------------------------------------------------
(* capture_channel                                                         *)

code_per_div == 25

HeaderMarker == <<35, 57>>   \* b'#9'

\* The mid-scale-centred conversion.
CodeCentered(b) == b - 128

\* code = b - 255 if b > 127 else b
Code(b) == IF b > 127 THEN b - 255 ELSE b

\* voltage = (code / code_per_div) * vdiv - ofst
Voltage(code, vdiv, ofst) ==
    IF vdiv.k = "num" /\ ofst.k = "num"
    THEN RSub(RMul(RDiv(RInt(code), RInt(code_per_div)), DecToRat(vdiv)),
              DecToRat(ofst))
    ELSE [k |-> "nonfinite"]

\* The body of capture_channel after the two calibration queries: header
\* parsing, payload slice, conversion.
DecodeBlock(buf, vdiv, ofst) ==
    LET marker     == PyFind(buf, HeaderMarker)
        field      == PySlice(buf, marker + 2, marker + 11)
        data_len   == PyInt(field)
        data_start == marker + 11
        wave_bytes == PySlice(buf, data_start, data_start + data_len.v)
        voltages   == [i \in 1..Len(wave_bytes) |->
                          Voltage(Code(wave_bytes[i]), vdiv, ofst)]
    IN  IF marker = -1 THEN [k |-> "error", why |-> "no block header"]
        ELSE IF data_len.k = "fail" THEN [k |-> "error", why |-> "int"]
        ELSE [k |-> "ok", voltages |-> voltages, vdiv |-> vdiv, ofst |-> ofst,
              num_points |-> Len(voltages),
              \* what the call worked on, kept for the properties
              marker |-> marker, data_len |-> data_len.v,
              wave_bytes |-> wave_bytes]

capture_channel(vdiv_resp, ofst_resp, buf) ==
    LET vdiv == parse_value(vdiv_resp)
        ofst == parse_value(ofst_resp)
    IN  IF vdiv.k = "fail" THEN [k |-> "error", why |-> "vdiv"]
        ELSE IF ofst.k = "fail" THEN [k |-> "error", why |-> "ofst"]
        ELSE DecodeBlock(buf, vdiv, ofst)

----------------------------------------------------------------------------
(* The instrument's answers to one capture_channel call                    *)

MaxPayload == 2

PENDING == [k |-> "pending"]

\* (VDIV response, OFST response): 0.2 V or 1 V per division, 0 V or
\* -0.5 V offset, and one unparsable response of each kind.
Calibrations ==
    LET v02 == <<"C", "1", ":", "V", "D", "I", "V", " ",
                 "2", ".", "0", "0", "E", "-", "0", "1", "V">>
        v1  == <<"1", "V", "\n">>
        o0  == <<"C", "1", ":", "O", "F", "S", "T", " ", "0", "V">>
        o05 == <<"-", "5", "0", "0", "m", "V", "\n">>
    IN  {<<v02, o0>>, <<v02, o05>>, <<v1, o0>>, <<v1, o05>>,
         <<<<"V">>, o0>>, <<v1, <<"O", "F", "S", "T", " ", "x">>>>}

\* The 9-digit field declaring a payload of n < 10 bytes.
LengthField(n) == [i \in 1..9 |-> IF i = 9 THEN 48 + n ELSE 48]

\* '+', '-', ' ', '_', 'x' and '1' put in place of one digit of the field.
OddBytes == {43, 45, 32, 95, 120, 49}

Fields ==
    {LengthField(n) : n \in 0..(MaxPayload + 1)}
    \cup {[LengthField(n) EXCEPT ![i] = c] :
             n \in 0..(MaxPayload + 1), i \in 1..9, c \in OddBytes}

ByteSamples == {0, 128, 255}

Payloads == UNION {[1..n -> ByteSamples] : n \in 0..MaxPayload}

Preambles == {<<>>, <<67, 44>>}      \* "", "C,"

Trailers == {<<>>, <<10, 10>>}       \* "", "\n\n"

\* header, payload and trailer, the payload as long as declared or not
FramedRaws ==
    {pre \o HeaderMarker \o f \o pl \o tr :
        pre \in Preambles, f \in Fields, pl \in Payloads, tr \in Trailers}

\* buffers that end inside the length field
ShortRaws ==
    {pre \o HeaderMarker \o SubSeq(LengthField(n), 1, j) :
        pre \in Preambles, n \in 0..(MaxPayload + 1), j \in 0..8}

\* buffers without the marker
UnmarkedRaws == {<<>>, <<67, 44>>, <<35>>, <<57, 35, 48>>}

\* a one-byte block for every byte value
ByteRaws ==
    {HeaderMarker \o LengthField(1) \o <<b>> \o <<10, 10>> : b \in 0..255}

Raws == FramedRaws \cup ShortRaws \cup UnmarkedRaws \cup ByteRaws

----------------------------------------------------------------------------
(* Specification of capture_channel on the instrument's answers            *)

IdleParse ==
    /\ reading = UNSET
    /\ response = <<>>
    /\ parsed = UNSET

CaptureInit ==
    /\ IdleParse
    /\ IdleCapture
    /\ IdleMain

\* the scope answers C<n>:VDIV?, C<n>:OFST? and C<n>:WF? DAT2
ScopeAnswers ==
    /\ cap = UNSET
    /\ \E c \in Calibrations, buf \in Raws :
        /\ vresp' = c[1]
        /\ oresp' = c[2]
        /\ raw' = buf
    /\ cap' = PENDING
    /\ UNCHANGED <<parseVars, mainVars>>

CaptureChannel ==
    /\ cap = PENDING
    /\ cap' = capture_channel(vresp, oresp, raw)
    /\ UNCHANGED <<parseVars, raw, vresp, oresp, mainVars>>

CaptureNext == ScopeAnswers \/ CaptureChannel

SpecCapture == CaptureInit /\ [][CaptureNext]_vars

----------------------------------------------------------------------------
(* main: its inputs                                                        *)

MaxChannels == 2     \* channels named by -c, or displayed on the scope

MaxPoints == 4       \* samples the scope returns for one channel

MaxBudget == 2       \* largest --maxpoints

NumScopeChannels == 4

\* One comma-separated piece of the -c argument: "1", " 2", "7", "x".
ChannelItems == {<<49>>, <<32, 50>>, <<55>>, <<120>>}

\* args.channels after split(','); <<>> when -c is absent or empty.
ChannelArgs == {<<>>} \cup UNION {[1..n -> ChannelItems] : n \in 1..MaxChannels}

\* args.maxpoints: <<>> is None, <<m>> the integer m.
MaxpointsArgs == {<<>>} \cup {<<m>> : m \in (-1)..MaxBudget}

ArgSets ==
    {[list |-> TRUE, channels |-> <<>>, maxpoints |-> <<>>]}
    \cup [list : {FALSE}, channels : ChannelArgs, maxpoints : MaxpointsArgs]

TdivResponses ==
    { <<"T", "D", "I", "V", " ", "1", ".", "0", "0", "E", "-", "0", "3", "s">>,
      <<"T", "D", "I", "V">> }

\* 2 Sa/s, 0.5 Sa/s, 0 Sa/s, -2 Sa/s and an unparsable rate
SaraResponses ==
    { <<"S", "A", "R", "A", " ", "2", "S", "a", "/", "s">>,
      <<"S", "A", "R", "A", " ", "5", ".", "0", "0", "E", "-", "0", "1", "S", "a", "/", "s">>,
      <<"S", "A", "R", "A", " ", "0", "S", "a", "/", "s">>,
      <<"S", "A", "R", "A", " ", "-", "2", "S", "a", "/", "s">>,
      <<"S", "A", "R", "A", " ", "x">> }

\* A block of n samples whose i-th byte is i.
RampRaw(n) ==
    <<67, 44>> \o HeaderMarker \o LengthField(n) \o [i \in 1..n |-> i] \o <<10, 10>>

\* What the scope answers during one capture_channel call of main: a
\* well-formed block of 0..MaxPoints samples at 1 V/div and 0 V offset, an
\* unparsable VDIV response, or a buffer without block header.
MainCaptures ==
    LET v1 == <<"1", "V", "\n">>
        o0 == <<"0", "V", "\n">>
    IN  {[v |-> v1, o |-> o0, buf |-> RampRaw(n)] : n \in 0..MaxPoints}
        \cup {[v |-> <<"V">>, o |-> o0, buf |-> RampRaw(1)],
              [v |-> v1, o |-> o0, buf |-> <<67, 44>>]}

\* The outcomes of capture_channel on those answers.
MainOutcomes == {capture_channel(c.v, c.o, c.buf) : c \in MainCaptures}

----------------------------------------------------------------------------
(* main: helpers                                                           *)

\* a // b
PyFloorDiv(a, b) == IF b > 0 THEN a \div b ELSE (-a) \div (-b)

\* v[step-1::step]: the last sample of every group of step.
StrideKeepLast(v, step) ==
    [j \in 1..(Len(v) \div step) |-> v[j * step]]

\* v[::step], step >= 1
Stride(v, step) ==
    [j \in 1..((Len(v) + step - 1) \div step) |-> v[(j - 1) * step + 1]]

\* The elements of a finite set of integers in increasing order.
RECURSIVE Sorted(_)
Sorted(S) ==
    IF S = {} THEN <<>>
    ELSE LET lo == CHOOSE x \in S : \A y \in S : x <= y
         IN  <<lo>> \o Sorted(S \ {lo})

\* max(len(v) for v in channel_data.values())
LongestChannel(cd) ==
    CHOOSE n \in {Len(cd[c]) : c \in DOMAIN cd} : \A c \in DOMAIN cd : Len(cd[c]) <= n

\* The axis centred with num_points // 2.
TimeAxisTruncating(n, rate) ==
    LET dt == RDiv(RInt(1), DecToRat(rate))
    IN  [i \in 1..n |-> RMul(RSub(RInt(i - 1), RInt(n \div 2)), dt)]

\* dt = 1.0 / sara; times = [(i - num_points / 2) * dt for i in range(num_points)]
TimeAxis(n, rate) ==
    LET dt == RDiv(RInt(1), DecToRat(rate))
    IN  [i \in 1..n |-> RMul(RSub(RInt(i - 1), RDiv(RInt(n), RInt(2))), dt)]

\* get_active_channels: the displayed channels, in increasing order
ActiveChannelLists ==
    {Sorted(S) : S \in {T \in SUBSET (1..NumScopeChannels) : Cardinality(T) <= MaxChannels}}

\* save_csv: the header's channels and one row per time index; a channel
\* shorter than the axis leaves its cell empty.  Cells hold the exact values,
\* not their %e renderings.
CsvFile(ts, cd) ==
    LET chs == Sorted(DOMAIN cd)
    IN  [k |-> "csv", header |-> chs,
         rows |-> [i \in 1..Len(ts) |->
                     <<ts[i]>> \o [c \in 1..Len(chs) |->
                         IF i <= Len(cd[chs[c]]) THEN cd[chs[c]][i]
                         ELSE [k |-> "empty"]]]]

----------------------------------------------------------------------------
(* main                                                                    *)

MainInit ==
    /\ IdleParse
    /\ IdleCapture
    /\ pc = "start"
    /\ args = UNSET
    /\ channels = <<>>
    /\ sent = {}
    /\ sara = UNSET
    /\ idx = 0
    /\ attempts = <<>>
    /\ channel_data = <<>>
    /\ num_points = 0
    /\ times = UNSET
    /\ skip = 0
    /\ before = UNSET
    /\ csv = UNSET

\* args = parser.parse_args(); with --list, list_resources() and return
ParseArgs ==
    /\ pc = "start"
    /\ \E a \in ArgSets :
        /\ args' = a
        /\ pc' = IF a.list THEN "listed" ELSE "connect"
    /\ UNCHANGED <<parseVars, captureVars, channels, sent, sara, idx, attempts,
                   channel_data, num_points, times, skip, before, csv>>

\* scope = connect_scope(args.address): a scope, or sys.exit(1)
Connect ==
    /\ pc = "connect"
    /\ \E found \in BOOLEAN : pc' = IF found THEN "channels" ELSE "exit1"
    /\ UNCHANGED <<parseVars, captureVars, args, channels, sent, sara, idx,
                   attempts, channel_data, num_points, times, skip, before, csv>>

\* channels = [int(c.strip()) for c in args.channels.split(',')], or the
\* displayed channels, or [1]
DetermineChannels ==
    /\ pc = "channels"
    /\ IF args.channels # <<>>
       THEN LET nums == [i \in 1..Len(args.channels) |->
                            PyInt(StripBytes(args.channels[i]))]
            IN  IF \E i \in 1..Len(nums) : nums[i].k = "fail"
                THEN /\ pc' = "raised"
                     /\ UNCHANGED channels
                ELSE /\ channels' = [i \in 1..Len(nums) |-> nums[i].v]
                     /\ pc' = "stop"
       ELSE /\ \E active \in ActiveChannelLists :
                channels' = IF active = <<>> THEN <<1>> ELSE active
            /\ pc' = "stop"
    /\ UNCHANGED <<parseVars, captureVars, args, sent, sara, idx, attempts,
                   channel_data, num_points, times, skip, before, csv>>

\* scope.write('STOP')
Stop ==
    /\ pc = "stop"
    /\ sent' = sent \cup {"STOP"}
    /\ pc' = "timebase"
    /\ UNCHANGED <<parseVars, captureVars, args, channels, sara, idx, attempts,
                   channel_data, num_points, times, skip, before, csv>>

\* tdiv = parse_value(scope.query('TDIV?')); sara = parse_value(scope.query('SARA?'))
ReadTimebase ==
    /\ pc = "timebase"
    /\ \E tr \in TdivResponses, sr \in SaraResponses :
        IF parse_value(tr).k = "fail"
        THEN /\ sent' = sent \cup {"TDIV?"}
             /\ pc' = "raised"
             /\ UNCHANGED <<sara, idx>>
        ELSE IF parse_value(sr).k = "fail"
        THEN /\ sent' = sent \cup {"TDIV?", "SARA?"}
             /\ pc' = "raised"
             /\ UNCHANGED <<sara, idx>>
        ELSE /\ sent' = sent \cup {"TDIV?", "SARA?"}
             /\ sara' = parse_value(sr)
             /\ idx' = 1
             /\ pc' = "capture"
    /\ UNCHANGED <<parseVars, captureVars, args, channels, attempts,
                   channel_data, num_points, times, skip, before, csv>>

\* A capture loop without the try/except around capture_channel.
CaptureNextChannelUnguarded ==
    /\ pc = "capture"
    /\ idx <= Len(channels)
    /\ \E r \in MainOutcomes :
            /\ attempts' = Append(attempts, [ch |-> channels[idx], out |-> r])
            /\ IF r.k = "ok"
               THEN /\ channel_data' = (channels[idx] :> r.voltages) @@ channel_data
                    /\ idx' = idx + 1
                    /\ pc' = pc
               ELSE /\ pc' = "raised"
                    /\ UNCHANGED <<channel_data, idx>>
    /\ UNCHANGED <<parseVars, captureVars, args, channels, sent, sara,
                   num_points, times, skip, before, csv>>

\* One iteration of "for ch in channels": try capture_channel, store the
\* voltages, or report the error and go on.
CaptureNextChannel ==
    /\ pc = "capture"
    /\ idx <= Len(channels)
    /\ \E r \in MainOutcomes :
            /\ attempts' = Append(attempts, [ch |-> channels[idx], out |-> r])
            /\ channel_data' = IF r.k = "ok"
                               THEN (channels[idx] :> r.voltages) @@ channel_data
                               ELSE channel_data
    /\ idx' = idx + 1
    /\ UNCHANGED <<parseVars, captureVars, pc, args, channels, sent, sara,
                   num_points, times, skip, before, csv>>

\* After the loop: sys.exit(1) without data; else num_points, dt and times
\* (ZeroDivisionError for a zero rate).
BuildAxis ==
    /\ pc = "capture"
    /\ idx > Len(channels)
    /\ IF DOMAIN channel_data = {}
       THEN /\ pc' = "exit1"
            /\ UNCHANGED <<num_points, times>>
       ELSE /\ num_points' = LongestChannel(channel_data)
            /\ IF sara.k = "num" /\ sara.m = 0
               THEN /\ pc' = "raised"
                    /\ UNCHANGED times
               ELSE /\ times' = [k |-> "axis",
                                 t |-> IF sara.k = "num"
                                       THEN TimeAxis(num_points', sara)
                                       ELSE [i \in 1..num_points' |-> [k |-> "nonfinite"]]]
                    /\ pc' = "decimate"
    /\ UNCHANGED <<parseVars, captureVars, args, channels, sent, sara, idx,
                   attempts, channel_data, skip, before, csv>>

\* if args.maxpoints and num_points > args.maxpoints: decimate
Decimate ==
    /\ pc = "decimate"
    /\ before' = [times |-> times.t, channel_data |-> channel_data]
    /\ IF args.maxpoints # <<>> /\ args.maxpoints[1] # 0
          /\ num_points > args.maxpoints[1]
       THEN LET q == PyFloorDiv(num_points, args.maxpoints[1])
                s == IF q < 1 THEN 1 ELSE q
            IN  /\ skip' = s
                /\ times' = [times EXCEPT !.t = Stride(times.t, s)]
                /\ channel_data' = [c \in DOMAIN channel_data |->
                                        Stride(channel_data[c], s)]
       ELSE UNCHANGED <<skip, times, channel_data>>
    /\ pc' = "save"
    /\ UNCHANGED <<parseVars, captureVars, args, channels, sent, sara, idx,
                   attempts, num_points, csv>>

\* save_csv(args.output, times, channel_data); scope.close()
SaveCsv ==
    /\ pc = "save"
    /\ csv' = CsvFile(times.t, channel_data)
    /\ pc' = "done"
    /\ UNCHANGED <<parseVars, captureVars, args, channels, sent, sara, idx,
                   attempts, channel_data, num_points, times, skip, before>>

Next ==
    \/ ParseArgs
    \/ Connect
    \/ DetermineChannels
    \/ Stop
    \/ ReadTimebase
    \/ CaptureNextChannel
    \/ BuildAxis
    \/ Decimate
    \/ SaveCsv

Spec == MainInit /\ [][Next]_vars

----------------------------------------------------------------------------
(* Properties of capture_channel (SpecCapture)                             *)

Returned == cap.k \in {"ok", "error"}

SignedCode(b) == IF b <= 127 THEN b ELSE b - 255

ExpectedVoltage(b, scale, offset) ==
    RSub(RMul(Rat(SignedCode(b), 25), DecToRat(scale)), DecToRat(offset))

(* C1: every payload byte b becomes the signed code b (b <= 127) or        *)
(* b - 255 (b >= 128), and the voltage list is that mapping applied to the *)
(* payload element by element: same length, same order.                   *)
C1_ByteToCode ==
    cap.k = "ok" =>
        /\ Len(cap.voltages) = Len(cap.wave_bytes)
        /\ \A i \in 1..Len(cap.wave_bytes) :
              cap.voltages[i] = ExpectedVoltage(cap.wave_bytes[i], cap.vdiv, cap.ofst)

C1_Witness ==
    /\ cap.k = "ok"
    /\ cap.wave_bytes = <<128>>
    /\ cap.vdiv = [k |-> "num", m |-> 1, e |-> 0]
    /\ cap.ofst = [k |-> "num", m |-> 0, e |-> 0]
    /\ cap.voltages = <<Rat(-127, 25)>>

\* The header as the block format defines it: the marker, then 9 ASCII digits.
MarkerAt == PyFind(raw, HeaderMarker)

NineDigits ==
    /\ MarkerAt # -1
    /\ Len(raw) >= MarkerAt + 11
    /\ \A i \in 1..9 : raw[MarkerAt + 2 + i] \in 48..57

RECURSIVE DigitSum(_, _)
DigitSum(from, n) ==
    IF n = 0 THEN 0 ELSE 10 * DigitSum(from, n - 1) + (raw[from + n] - 48)

DeclaredLength == DigitSum(MarkerAt + 2, 9)

AvailableBytes == Len(raw) - (MarkerAt + 11)

(* C3: block extraction returns a payload of exactly the declared length   *)
(* or fails; a buffer with fewer bytes after the length field than         *)
(* declared makes it fail.                                                 *)
C3_TruncatedBlockFails ==
    (Returned /\ NineDigits) =>
        /\ cap.k = "ok" => Len(cap.wave_bytes) = DeclaredLength
        /\ AvailableBytes < DeclaredLength => cap.k = "error"

(* C8: extraction fails whenever the 9 bytes after the marker are not      *)
(* exactly 9 ASCII digits.                                                 *)
C8_NonDigitFieldFails ==
    (Returned /\ MarkerAt # -1 /\ ~NineDigits) => cap.k = "error"

----------------------------------------------------------------------------
(* Properties of main (Spec)                                               *)

Decimated == pc \in {"save", "done"} /\ skip > 0

(* C4: with --maxpoints M > 0 and N > M captured points, the axis and      *)
(* every channel hold at most M points after decimation.                   *)
C4_WithinBudget ==
    (/\ pc \in {"save", "done"}
     /\ args.maxpoints # <<>>
     /\ args.maxpoints[1] > 0
     /\ num_points > args.maxpoints[1]) =>
        /\ Len(times.t) <= args.maxpoints[1]
        /\ \A c \in DOMAIN channel_data : Len(channel_data[c]) <= args.maxpoints[1]

\* out keeps exactly the elements of orig at 0-based indices 0, k, 2k, ...
KeepsEvery(out, orig, k) ==
    /\ Len(out) = (Len(orig) + k - 1) \div k
    /\ \A j \in 1..Len(out) : out[j] = orig[(j - 1) * k + 1]

(* C5 as stated: after decimation the axis and all channels have equal     *)
(* length and position j of each holds the element of original index       *)
(* j*skip, channels of different captured lengths included.                *)
C5_EqualLengthAligned ==
    Decimated =>
        /\ \A c \in DOMAIN channel_data : Len(channel_data[c]) = Len(times.t)
        /\ KeepsEvery(times.t, before.times, skip)
        /\ \A c \in DOMAIN channel_data :
              KeepsEvery(channel_data[c], before.channel_data[c], skip)

(* C5 amended: after decimation position j of the axis and of every        *)
(* channel holds the element of original index j*skip, one skip for all;   *)
(* each keeps ceil(len/skip) elements, so the channels as long as the      *)
(* longest have the axis' length and a shorter channel is never longer     *)
(* than the axis.                                                          *)
C5_AlignedIndices ==
    Decimated =>
        /\ DOMAIN channel_data = DOMAIN before.channel_data
        /\ KeepsEvery(times.t, before.times, skip)
        /\ \A c \in DOMAIN channel_data :
              /\ KeepsEvery(channel_data[c], before.channel_data[c], skip)
              /\ Len(channel_data[c]) <= Len(times.t)
              /\ Len(before.channel_data[c]) = Len(before.times)
                    => Len(channel_data[c]) = Len(times.t)

C5_Witness ==
    /\ Decimated
    /\ skip >= 2
    /\ \E c, d \in DOMAIN channel_data :
          /\ Len(channel_data[c]) < Len(channel_data[d])
          /\ Len(channel_data[c]) >= 1

\* The positions of attempts at which channel ch was captured successfully.
Successes(ch) ==
    {i \in 1..Len(attempts) : attempts[i].ch = ch /\ attempts[i].out.k = "ok"}

(* C6: the capture loop attempts every requested channel in order whatever *)
(* the earlier outcomes, and channel_data holds exactly the channels whose *)
(* capture succeeded, each with the samples decoded for it.                *)
C6_LoopContinues ==
    /\ pc = "capture" =>
          /\ [i \in 1..Len(attempts) |-> attempts[i].ch] = SubSeq(channels, 1, idx - 1)
          /\ DOMAIN channel_data =
                {attempts[i].ch : i \in {j \in 1..Len(attempts) : attempts[j].out.k = "ok"}}
          /\ \A ch \in DOMAIN channel_data :
                \E i \in Successes(ch) :
                    /\ \A j \in Successes(ch) : j <= i
                    /\ channel_data[ch] = attempts[i].out.voltages
    /\ (pc # "capture" /\ attempts # <<>>) => Len(attempts) = Len(channels)

C6_Witness ==
    /\ pc = "capture"
    /\ idx > Len(channels)
    /\ Len(attempts) = 2
    /\ attempts[1].out.k = "error"
    /\ attempts[2].out.k = "ok"
    /\ DOMAIN channel_data = {channels[2]}
    /\ Len(channel_data[channels[2]]) >= 1

\* -c names an integer outside 1..4.
RequestsUnsupported ==
    /\ args # UNSET
    /\ \E i \in 1..Len(args.channels) :
          /\ PyInt(args.channels[i]).k = "int"
          /\ PyInt(args.channels[i]).v \notin 1..4

(* C7: a requested channel number outside 1..4 is rejected before any      *)
(* decode work: no STOP, no time-base query, no capture_channel call.      *)
C7_RejectedBeforeDecode ==
    RequestsUnsupported => (sent = {} /\ attempts = <<>>)

(* C9: for a rate sara > 0 the axis has N entries, N the sample count of   *)
(* the longest captured channel, with 2*sara*t_i = 2*i - N for even and    *)
(* odd N, and is strictly increasing.                                      *)
C9_TimeAxis ==
    (pc = "decimate" /\ sara.k = "num" /\ sara.m > 0) =>
        LET n == Len(times.t)
        IN  /\ \A c \in DOMAIN channel_data : Len(channel_data[c]) <= n
            /\ \E c \in DOMAIN channel_data : Len(channel_data[c]) = n
            /\ \A i \in 1..n :
                  RMul(RMul(RInt(2), DecToRat(sara)), times.t[i]) = RInt(2 * (i - 1) - n)
            /\ \A i \in 1..(n - 1) : RLess(times.t[i], times.t[i + 1])

C9_Witness ==
    /\ pc = "decimate"
    /\ sara = [k |-> "num", m |-> 5, e |-> -1]
    /\ Len(times.t) = 3
    /\ times.t[1] = Rat(-3, 1)
    /\ times.t[3] = Rat(1, 1)

(* C10: a sample rate <= 0 makes the axis construction fail: no time axis  *)
(* is produced and nothing is exported.                                    *)
C10_NonPositiveRateFails ==
    (sara.k = "num" /\ sara.m <= 0) => (times = UNSET /\ csv = UNSET)

====
